---- MODULE Spec2Model ----
(***************************************************************************)
(* Barrier-synchronised compartment simulations of the repository          *)
(* Epidemiology-Models: the SIR model (SIR.c / SIR.cpp), the SQEIR model   *)
(* (SQEIR.c / SQEIR.cpp) and the zombie SIInZD model (SIInZD.c and its     *)
(* main).  One OpenMP section per compartment plus the Watcher; every      *)
(* section runs the same loop with three "#pragma omp barrier" per round.  *)
(*                                                                         *)
(* Real-valued rates are modelled as exact rationals [num, den], and the   *)
(* rate "inf", which strtod() reads and parseDouble() accepts, as a        *)
(* rational of denominator 0.  A `long` is modelled as an integer; the     *)
(* conversion of a double that is no value of `long` is undefined, and is  *)
(* a choice among the results the builds give.                             *)
(***************************************************************************)
EXTENDS Integers, Sequences, FiniteSets, TLC

VARIABLES
    argv,         \* the arguments of the command line, argv[1] .. argv[argc - 1]
    argi,         \* main's index i into argv
    errors,       \* the error messages written to stderr, in order
    variant,      \* which program runs: "SIR", "SQEIR", "SIInZD", ...
    build,        \* the build that runs: what it makes of an undefined conversion
    NumYears,     \* the horizon: NumYears (SIR, SQEIR), END_YEAR (SIInZD)
    rates,        \* InfectionRate, RecoveryRate, ZombieRate, DeathRate, ZombieDeathRate
    NowYear,      \* shared clock
    NowMonth,     \* shared clock, 0..11
    Current,      \* Current<X> for every compartment X of the variant
    next,         \* next<X>: the private local of every worker
    tempMonth,    \* Watcher's local
    tempYear,     \* Watcher's local
    pcMain,       \* position of main
    pc,           \* position of every section (task)
    count,        \* team barrier: threads arrived in the current generation
    gen,          \* team barrier: generation (flips when the barrier opens)
    mygen,        \* the generation each waiting task arrived in
    reports,      \* the records written to stderr, in order
    iter,         \* history: loop iterations each task has begun
    committed     \* history: compartment values when a commit phase last completed

vars == << argv, argi, errors, variant, build, NumYears, rates, NowYear, NowMonth, Current, next,
           tempMonth, tempYear, pcMain, pc, count, gen, mygen, reports,
           iter, committed >>

-----------------------------------------------------------------------------
(* Bounds of the model *)

\* simulated years are drawn from 0..MaxYears
MaxYears == 1

\* the generated values of -y have 1..MaxDigits digits
MaxDigits == 4

-----------------------------------------------------------------------------
(* Program constants *)

\* tempMonth > 11 wraps the month
LastMonth == 11

\* long TotalPopulation = 175000 (SIR.c)
TotalPopulation == 175000

\* long CurrentSusceptible = 175000: the value without -s
DefaultSusceptible == 175000

\* #define START_YEAR 2023 (SIInZD.h)
START_YEAR == 2023

\* #define END_YEAR 2024 (influenzaModel.cpp)
END_YEAR == 2024

\* #define NUM_YEARS 2 (SQEIR.h): the horizon without -y
NUM_YEARS == 2

\* the largest int: if (temp > INT_MAX) in parseInt
INT_MAX == 2147483647

\* int StartYear = 2005 (dicloniusPopulation.cpp)
DicloniusStartYear == 2005

\* the month of the birth rates: BIRTH_RATE / 12
MonthsOfBirthRate == 12

\* the birth rates are per 1000: CurrentHumans / 1000
PerThousand == 1000

Variants == {"SIR", "SQEIR", "SIInZD"}

\* the compartments of a variant, each computed by its own section
Workers(v) ==
    CASE v = "SIR"    -> {"Susceptible", "Infected", "Recovered"}
      [] v = "SQEIR"  -> {"Susceptible", "Quarantined", "Exposed", "Infected", "Recovered"}
      [] v = "SIInZD" -> {"Susceptible", "Immune", "Infected", "Zombies", "Dead"}
      [] v = "Diclonius" -> {"Humans", "Carriers", "Queens", "Silphalets"}
      [] v = "influenzaModel" -> {"Susceptible", "Infected", "Recovered"}

\* the sections of the parallel region
Tasks(v) == Workers(v) \cup {"Watcher"}

\* #define NUMT: the size of the team, hence of every barrier
NUMT(v) ==
    CASE v = "SIR"    -> 4
      [] v = "SQEIR"  -> 6
      [] v = "SIInZD" -> 6
      [] v = "Diclonius" -> 5
      [] v = "influenzaModel" -> 4

\* the declared order of the compartments in a report record
Order(v) ==
    CASE v = "SIR"    -> << "Susceptible", "Infected", "Recovered" >>
      [] v = "SQEIR"  -> << "Susceptible", "Quarantined", "Exposed", "Infected", "Recovered" >>
      [] v = "SIInZD" -> << "Susceptible", "Immune", "Infected", "Zombies", "Dead" >>
      [] v = "Diclonius" -> << "Humans", "Carriers", "Queens", "Silphalets" >>
      [] v = "influenzaModel" -> << "Susceptible", "Infected", "Recovered" >>

\* the initial value of NowYear
StartYear(v) ==
    CASE v = "SIInZD"    -> START_YEAR
      [] v = "Diclonius" -> DicloniusStartYear
      [] v = "influenzaModel" -> START_YEAR
      [] OTHER           -> 0

\* the initial values of the globals, before main's adjustments; s and i are
\* the values of -s and -i (or the defaults 175000 and 10)
InitialCurrent(v, s, i) ==
    CASE v = "SIR"    -> [ Susceptible |-> s, Infected |-> i, Recovered |-> 0 ]
      [] v = "SQEIR"  -> [ Susceptible |-> s, Quarantined |-> 0, Exposed |-> 100,
                           Infected |-> i, Recovered |-> 0 ]
      [] v = "SIInZD" -> [ Susceptible |-> s, Immune |-> 100, Infected |-> i,
                           Zombies |-> 10, Dead |-> 0 ]
      [] v = "influenzaModel" -> [ Susceptible |-> s, Infected |-> i, Recovered |-> 0 ]

\* the initial values of the globals of dicloniusPopulation.cpp
DicloniusDefaults ==
    [ Humans |-> 173000, Carriers |-> 10, Queens |-> 1, Silphalets |-> 35 ]

-----------------------------------------------------------------------------
(* Arithmetic *)

Rate(n, d) == [ num |-> n, den |-> d ]

\* r1 + r2 for two rates
RateSum(r1, r2) == Rate(r1.num * r2.den + r2.num * r1.den, r1.den * r2.den)

\* C's integer division: truncation toward zero (b > 0)
TruncDiv(a, b) == IF a >= 0 THEN a \div b ELSE -((-a) \div b)

\* round(n / d) of <math.h>: to nearest, halves away from zero (d > 0)
RoundDiv(n, d) ==
    IF n >= 0 THEN (2 * n + d) \div (2 * d)
              ELSE -((2 * (-n) + d) \div (2 * d))

\* round(c * rate)
Round(c, r) == RoundDiv(c * r.num, r.den)

\* the double strtod() returns for "inf": parseDouble() rejects only values < 0
Infinity == Rate(1, 0)

IsInfinite(r) == r.den = 0

\* the double c * rate for an infinite rate: an infinity of c's sign, NaN for 0
TimesInfinity(c) == IF c > 0 THEN "+inf" ELSE IF c < 0 THEN "-inf" ELSE "nan"

\* x - d for a long x and a double d that is infinite or NaN
MinusNonFinite(d) == IF d = "+inf" THEN "-inf" ELSE IF d = "-inf" THEN "+inf" ELSE "nan"

\* the ends of long. The integers of the model are TLC's, of 32 bits: the
\* ends of long are represented by the ends of the model's integers, which
\* have their signs
LONG_MAX == 2147483647
LONG_MIN == -LONG_MAX

\* the builds: x86-64 converts with cvttsd2si, which gives LONG_MIN for every
\* double that is no value of long; a saturating conversion (AArch64 fcvtzs)
\* gives the nearest end of long, and 0 for NaN
Builds == {"x86-64", "saturating"}

\* (long) d for a double d that is infinite or NaN: undefined in C, and what
\* build b makes of it
OutOfRange(b, d) ==
    IF b = "x86-64" THEN LONG_MIN
    ELSE CASE d = "+inf" -> LONG_MAX
           [] d = "-inf" -> LONG_MIN
           [] d = "nan"  -> 0

\* n1/d1 - n2/d2 as one fraction (d1, d2 > 0)
RateDiff(r1, r2) == Rate(r1.num * r2.den - r2.num * r1.den, r1.den * r2.den)

\* x += f for an integer x and a real f = r.num / r.den: the sum is computed
\* in floating point and converted back to the integer type, which truncates
\* toward zero.  The floats are modelled as exact fractions
TruncPlus(x, r) ==
    LET f == r.num \div r.den
    IN  IF x + f >= 0 THEN x + f
        ELSE x + f + (IF r.num % r.den = 0 THEN 0 ELSE 1)

\* if (next < 0) next = 0
Clamp(x) == IF x < 0 THEN 0 ELSE x

\* << q, r >> with x * y = q * t + r and 0 <= r < t, for x, y >= 0 and t > 0;
\* computed by halving y so that no intermediate value exceeds 3 * t (the C code
\* multiplies two longs, which cannot overflow for the populations modelled)
RECURSIVE MulDivMod(_, _, _)
MulDivMod(x, y, t) ==
    IF y = 0 THEN << 0, 0 >>
    ELSE LET h == MulDivMod(x, y \div 2, t)
             e == y % 2
             s == 2 * h[2] + e * (x % t)
         IN  << 2 * h[1] + e * (x \div t) + (s \div t), s % t >>

\* (a * b) / t in C: the product of two longs divided with truncation toward zero
MulTruncDiv(a, b, t) ==
    LET x == IF a < 0 THEN -a ELSE a
        y == IF b < 0 THEN -b ELSE b
        q == MulDivMod(x, y, t)[1]
    IN  IF (a < 0) = (b < 0) THEN q ELSE -q

-----------------------------------------------------------------------------
(* The update rules: what each worker computes from the shared values c, its *)
(* private value acc and the rates r                                         *)

SIR_Susceptible(c, r) ==
    Clamp(c.Susceptible
          - Round(MulTruncDiv(c.Susceptible, c.Infected, TotalPopulation), r.InfectionRate))

SIR_Infected(c, r) ==
    Clamp(c.Infected
          + Round(MulTruncDiv(c.Susceptible, c.Infected, TotalPopulation), r.InfectionRate)
          - Round(c.Infected, r.RecoveryRate))

\* Recovered() of SIR.c and SQEIR.c: nextRecovered is never re-read from
\* CurrentRecovered, and never clamped
Acc_Recovered(c, r, acc) == acc + Round(c.Infected, r.RecoveryRate)

SQEIR_Susceptible(c, r) ==
    Clamp(c.Susceptible - Round(c.Susceptible, r.InfectionRate))

SQEIR_Quarantined(c, r) ==
    Clamp(c.Quarantined - Round(c.Quarantined, r.InfectionRate))

SQEIR_Exposed(c, r) ==
    Clamp(c.Exposed - Round(c.Exposed, r.InfectionRate))

SQEIR_Infected(c, r) ==
    Clamp(c.Infected + Round(c.Susceptible, r.InfectionRate)
                     - Round(c.Infected, r.RecoveryRate))

Z_Susceptible(c, r) ==
    Clamp(c.Susceptible - Round(c.Susceptible, RateSum(r.InfectionRate, r.DeathRate)))

Z_Infected(c, r) ==
    Clamp(c.Infected + Round(c.Susceptible, r.InfectionRate)
                     - Round(c.Infected, RateSum(r.ZombieRate, r.DeathRate)))

Z_Immune(c, r) ==
    Clamp(c.Immune - Round(c.Immune, r.DeathRate))

Z_Zombies(c, r) ==
    Clamp(c.Zombies + Round(c.Infected, r.ZombieRate)
                    - Round(c.Zombies, r.ZombieDeathRate))

Z_Dead(c, r) ==
    Clamp(c.Dead + Round(c.Susceptible, r.DeathRate) + Round(c.Infected, r.DeathRate)
                 + Round(c.Immune, r.DeathRate) + Round(c.Zombies, r.ZombieDeathRate))

\* the const floats of dicloniusPopulation.cpp
DicloniusRates ==
    [ INFECTION_RATE |-> Rate(2, 5), BIRTH_RATE_HUMANS |-> Rate(7013, 1000),
      BIRTH_RATE_SILPHALETS |-> Rate(7013, 1000), BIRTH_RATE_QUEENS |-> Rate(7013, 1000) ]

\* n * BIRTH_RATE / 12 for an integer n
Births(n, birthRate) == Rate(n * birthRate.num, birthRate.den * MonthsOfBirthRate)

\* (CurrentQueens + CurrentSilphalets) * INFECTION_RATE
Infections(c, r) ==
    Rate((c.Queens + c.Silphalets) * r.INFECTION_RATE.num, r.INFECTION_RATE.den)

\* the births of Humans(): CurrentHumans/1000 * BIRTH_RATE_HUMANS/12
HumanBirths(c, r) == Births(TruncDiv(c.Humans, PerThousand), r.BIRTH_RATE_HUMANS)

\* nextHumans += births - infections, with no round()
D_HumansRaw(c, r) ==
    TruncPlus(c.Humans, RateDiff(HumanBirths(c, r), Infections(c, r)))

\* Humans(): the sum above, clamped
D_Humans(c, r) == Clamp(D_HumansRaw(c, r))

\* Carriers(): no round() and no clamp
D_Carriers(c, r) == TruncPlus(c.Carriers, Infections(c, r))

\* Queens(): nextQueens lives across rounds; no round() and no clamp
D_Queens(c, r, acc) ==
    TruncPlus(acc, Births(TruncDiv(c.Queens + TruncDiv(c.Humans, 2) + TruncDiv(c.Carriers, 2),
                                   PerThousand),
                          r.BIRTH_RATE_QUEENS))

\* Silphalets(): nextSilphalets lives across rounds; no round() and no clamp
D_Silphalets(c, r, acc) ==
    TruncPlus(acc, Births(TruncDiv(c.Humans + c.Carriers, PerThousand),
                          r.BIRTH_RATE_SILPHALETS))

\* the double c * rate, and its opposite
Times(c, r) == Rate(c * r.num, r.den)
Minus(f) == Rate(-f.num, f.den)

\* Susceptible() of influenzaModel.cpp: nextSusceptible -= CurrentInfected *
\* InfectionRate, with no round()
Flu_Susceptible(c, r) ==
    Clamp(TruncPlus(c.Susceptible, Minus(Times(c.Infected, r.InfectionRate))))

\* Infected() of influenzaModel.cpp: two compound assignments, each converted
\* back to long
Flu_Infected(c, r) ==
    Clamp(TruncPlus(TruncPlus(c.Infected, Times(c.Susceptible, r.InfectionRate)),
                    Minus(Times(c.Infected, r.RecoveryRate))))

\* Recovered() of influenzaModel.cpp: nextRecovered lives across rounds
Flu_Recovered(c, r, acc) == TruncPlus(acc, Times(c.Infected, r.RecoveryRate))

\* nextInfected -= round(CurrentInfected * RecoveryRate) and the clamp, for an
\* infinite RecoveryRate (SIR.c and SQEIR.c)
Infected_NonFinite(b, c) ==
    Clamp(OutOfRange(b, MinusNonFinite(TimesInfinity(c.Infected))))

\* nextRecovered += round(CurrentInfected * RecoveryRate) for an infinite
\* RecoveryRate (SIR.c and SQEIR.c)
Recovered_NonFinite(b, c) == OutOfRange(b, TimesInfinity(c.Infected))

\* the workers whose next value lives across rounds in the private local
Accumulates(v, w) ==
    \/ w = "Recovered"
    \/ v = "Diclonius" /\ w \in {"Queens", "Silphalets"}

\* the value worker w of variant v computes in one compute phase
Rule(v, w, c, r, acc) ==
    CASE v = "SIR" /\ w = "Susceptible"    -> SIR_Susceptible(c, r)
      [] v = "SIR" /\ w = "Infected"       -> SIR_Infected(c, r)
      [] v = "SQEIR" /\ w = "Susceptible"  -> SQEIR_Susceptible(c, r)
      [] v = "SQEIR" /\ w = "Quarantined"  -> SQEIR_Quarantined(c, r)
      [] v = "SQEIR" /\ w = "Exposed"      -> SQEIR_Exposed(c, r)
      [] v = "SQEIR" /\ w = "Infected"     -> SQEIR_Infected(c, r)
      [] v = "SIInZD" /\ w = "Susceptible" -> Z_Susceptible(c, r)
      [] v = "SIInZD" /\ w = "Infected"    -> Z_Infected(c, r)
      [] v = "SIInZD" /\ w = "Immune"      -> Z_Immune(c, r)
      [] v = "SIInZD" /\ w = "Zombies"     -> Z_Zombies(c, r)
      [] v = "SIInZD" /\ w = "Dead"        -> Z_Dead(c, r)
      [] v = "Diclonius" /\ w = "Humans"     -> D_Humans(c, r)
      [] v = "Diclonius" /\ w = "Carriers"   -> D_Carriers(c, r)
      [] v = "Diclonius" /\ w = "Queens"     -> D_Queens(c, r, acc)
      [] v = "Diclonius" /\ w = "Silphalets" -> D_Silphalets(c, r, acc)
      [] v = "influenzaModel" /\ w = "Susceptible" -> Flu_Susceptible(c, r)
      [] v = "influenzaModel" /\ w = "Infected"    -> Flu_Infected(c, r)
      [] v = "influenzaModel" /\ w = "Recovered"   -> Flu_Recovered(c, r, acc)
      [] v \in {"SIR", "SQEIR"} /\ w = "Recovered" -> Acc_Recovered(c, r, acc)

\* the value the compute phase of worker w leaves in its local under build b
Computed(b, v, w, c, r, acc) ==
    CASE v \in {"SIR", "SQEIR"} /\ w = "Infected" /\ IsInfinite(r.RecoveryRate)
             -> Infected_NonFinite(b, c)
      [] v \in {"SIR", "SQEIR"} /\ w = "Recovered" /\ IsInfinite(r.RecoveryRate)
             -> Recovered_NonFinite(b, c)
      [] OTHER -> Rule(v, w, c, r, acc)


-----------------------------------------------------------------------------
(* The conversions of <stdlib.h>.  A string is a sequence of characters.     *)

DigitValue ==
    [ ch \in {"0", "1", "2", "3", "4", "5", "6", "7", "8", "9"} |->
        CASE ch = "0" -> 0 [] ch = "1" -> 1 [] ch = "2" -> 2 [] ch = "3" -> 3
          [] ch = "4" -> 4 [] ch = "5" -> 5 [] ch = "6" -> 6 [] ch = "7" -> 7
          [] ch = "8" -> 8 [] ch = "9" -> 9 ]

\* ch is a digit of the given radix
IsDigit(ch, radix) == ch \in DOMAIN DigitValue /\ DigitValue[ch] < radix

\* the number of white-space characters s begins with at position p
RECURSIVE SpaceRun(_, _)
SpaceRun(s, p) ==
    IF p <= Len(s) /\ s[p] = " " THEN 1 + SpaceRun(s, p + 1) ELSE 0

\* the number of digits s goes on with at position p
RECURSIVE DigitRun(_, _, _)
DigitRun(s, p, radix) ==
    IF p <= Len(s) /\ IsDigit(s[p], radix) THEN 1 + DigitRun(s, p + 1, radix) ELSE 0

\* the value of the n digits of s that begin at position p
RECURSIVE DigitsValue(_, _, _, _)
DigitsValue(s, p, n, radix) ==
    IF n = 0 THEN 0
    ELSE radix * DigitsValue(s, p, n - 1, radix) + DigitValue[s[p + n - 1]]

\* s has a sign at position p
HasSign(s, p) == p <= Len(s) /\ s[p] \in {"-", "+"}

\* strtol(s, &endptr, base) for base 10 and base 0: white space, an optional
\* sign, then the longest run of digits; with base 0 a leading 0 makes the
\* digits octal.  val is the result and endptr the number of characters
\* consumed (0: no conversion, endptr == s).  The strings of the model are
\* short: no value is out of the range of long, and errno stays 0
strtol(s, base) ==
    LET p0    == 1 + SpaceRun(s, 1)
        p     == IF HasSign(s, p0) THEN p0 + 1 ELSE p0
        radix == IF base = 0 /\ p <= Len(s) /\ s[p] = "0" THEN 8 ELSE 10
        n     == DigitRun(s, p, radix)
        mag   == DigitsValue(s, p, n, radix)
    IN  [ val    |-> IF HasSign(s, p0) /\ s[p0] = "-" THEN -mag ELSE mag,
          endptr |-> IF n = 0 THEN 0 ELSE p - 1 + n ]

\* atoi(s): strtol(s, NULL, 10) converted to int, with no check at all
atoi(s) == strtol(s, 10).val

\* 10 to the power n
RECURSIVE Pow10(_)
Pow10(n) == IF n = 0 THEN 1 ELSE 10 * Pow10(n - 1)

\* strtod(s, &endptr) on the decimal forms: white space, an optional sign,
\* digits, an optional point and more digits; at least one digit is needed.
\* val is the exact fraction and endptr the number of characters consumed.
\* The strings of the model have no exponent and no hexadecimal, inf or nan
\* form
strtod(s) ==
    LET p0       == 1 + SpaceRun(s, 1)
        p        == IF HasSign(s, p0) THEN p0 + 1 ELSE p0
        n        == DigitRun(s, p, 10)
        q        == p + n
        hasPoint == q <= Len(s) /\ s[q] = "."
        m        == IF hasPoint THEN DigitRun(s, q + 1, 10) ELSE 0
        mag      == DigitsValue(s, p, n, 10) * Pow10(m) + DigitsValue(s, q + 1, m, 10)
    IN  [ val    |-> Rate(IF HasSign(s, p0) /\ s[p0] = "-" THEN -mag ELSE mag, Pow10(m)),
          endptr |-> IF n + m = 0 THEN 0 ELSE IF hasPoint THEN q + m ELSE q - 1 ]

\* parseLong(&x, str): x is assigned the result of strtol(str, &endptr, 0)
\* first; then the process exits when str == endptr or when x < 0
parseLong(str) ==
    LET r == strtol(str, 0)
    IN  [ val     |-> r.val,
          failure |-> IF r.endptr = 0 THEN "no digits"
                      ELSE IF r.val < 0 THEN "invalid value" ELSE "none" ]

\* parseDouble(&x, str): the same with strtod(str, &endptr)
parseDouble(str) ==
    LET r == strtod(str)
    IN  [ val     |-> r.val,
          failure |-> IF r.endptr = 0 THEN "no digits"
                      ELSE IF r.val.num < 0 THEN "invalid value" ELSE "none" ]

-----------------------------------------------------------------------------
(* parseInt: a long of 64 bits and an int of 32 bits.  A long is kept as     *)
(* four limbs of 16 bits, the least significant first, so that every value   *)
(* strtol() can return is represented exactly                                *)

Limb == 65536

\* limbs * radix + d, and whether the result needs more than 64 bits
MulAdd(l, radix, d) ==
    LET t1 == l[1] * radix + d
        t2 == l[2] * radix + (t1 \div Limb)
        t3 == l[3] * radix + (t2 \div Limb)
        t4 == l[4] * radix + (t3 \div Limb)
    IN  [ limbs |-> << t1 % Limb, t2 % Limb, t3 % Limb, t4 % Limb >>,
          over  |-> t4 \div Limb > 0 ]

\* radix to the power k
RECURSIVE Power(_, _)
Power(radix, k) == IF k = 0 THEN 1 ELSE radix * Power(radix, k - 1)

\* the digits are taken four at a time
Chunk == 4

\* the magnitude of the n digits of s that begin at position p: the digits
\* before the last group, shifted, plus the value of the last group
RECURSIVE Magnitude(_, _, _, _)
Magnitude(s, p, n, radix) ==
    IF n = 0 THEN [ limbs |-> << 0, 0, 0, 0 >>, over |-> FALSE ]
    ELSE LET k == IF n % Chunk = 0 THEN Chunk ELSE n % Chunk
             m == Magnitude(s, p, n - k, radix)
             r == MulAdd(m.limbs, Power(radix, k), DigitsValue(s, p + n - k, k, radix))
         IN  [ limbs |-> r.limbs, over |-> m.over \/ r.over ]

\* the magnitude is above LONG_MAX = 2^63 - 1
AboveLongMax(m) == m.over \/ m.limbs[4] >= Limb \div 2

\* the limbs of a long that is >= 0 are above INT_MAX
AboveIntMax(l) ==
    \/ l[4] > 0
    \/ l[3] > 0
    \/ l[2] > INT_MAX \div Limb
    \/ l[2] = INT_MAX \div Limb /\ l[1] > INT_MAX % Limb

\* (int) of a long that is >= 0: its low 32 bits as a two's complement int
ToInt(l) ==
    IF l[2] >= Limb \div 2 THEN (l[2] - Limb) * Limb + l[1]
    ELSE l[2] * Limb + l[1]

\* strtol(s, &endptr, 0) with a long of 64 bits: as strtol above, with the
\* magnitude in limbs; a value out of the range of long sets errno to ERANGE
\* (a magnitude of 2^63 with a minus sign is LONG_MIN, which is in range)
strtol64(s) ==
    LET p0    == 1 + SpaceRun(s, 1)
        p     == IF HasSign(s, p0) THEN p0 + 1 ELSE p0
        radix == IF p <= Len(s) /\ s[p] = "0" THEN 8 ELSE 10
        n     == DigitRun(s, p, radix)
        m     == Magnitude(s, p, n, radix)
        neg   == HasSign(s, p0) /\ s[p0] = "-"
        zero  == m.limbs = << 0, 0, 0, 0 >> /\ ~m.over
        min   == neg /\ ~m.over /\ m.limbs = << 0, 0, 0, Limb \div 2 >>
    IN  [ limbs    |-> m.limbs,
          negative |-> neg /\ ~zero,
          errno    |-> IF AboveLongMax(m) /\ ~min THEN "ERANGE" ELSE "none",
          endptr   |-> IF n = 0 THEN 0 ELSE p - 1 + n ]

\* parseLong(&temp, str) with a long of 64 bits: the checks in the order of
\* the code
parseLong64(str) ==
    LET r == strtol64(str)
    IN  [ limbs   |-> r.limbs,
          failure |-> IF r.errno # "none" THEN "strtol"
                      ELSE IF r.endptr = 0 THEN "no digits"
                      ELSE IF r.negative THEN "invalid value" ELSE "none" ]

\* a parseInt that stores whatever parseLong accepts
parseIntUnchecked(str) ==
    LET r == parseLong64(str)
    IN  [ val |-> ToInt(r.limbs), failure |-> r.failure ]

\* parseInt(&x, str): parseLong into a local long, exit when it is above
\* INT_MAX, and only then x = (int) temp
parseInt(str) ==
    LET r == parseLong64(str)
    IN  IF r.failure # "none" THEN [ val |-> 0, failure |-> r.failure ]
        ELSE IF AboveIntMax(r.limbs) THEN [ val |-> 0, failure |-> "too large" ]
        ELSE [ val |-> ToInt(r.limbs), failure |-> "none" ]

-----------------------------------------------------------------------------
(* Inputs: the values the flags (or the defaults) leave in the globals *)

\* -s: the default 175000 and, for SIR, a population smaller than the infected
\* one
SusceptibleInputs(v) ==
    IF v = "SIR" THEN {5, DefaultSusceptible} ELSE {DefaultSusceptible}

\* -i: the default
InfectedInputs == {10}

\* the default rates of SIR.c
DefaultRates == [ InfectionRate |-> Rate(2, 5), RecoveryRate |-> Rate(1, 25) ]

\* -b, -g (and -a, -d): for SIR the defaults and rates above 1; for SQEIR the
\* defaults; for SIInZD the defaults of SIInZD.c and rates whose outflows
\* exceed the compartments they are taken from
RateInputs(v) ==
    CASE v = "SIR"    -> { DefaultRates,
                           [ InfectionRate |-> Rate(3, 2), RecoveryRate |-> Rate(5, 4) ] }
      [] v = "SQEIR"  -> { DefaultRates }
      [] v = "SIInZD" -> { [ InfectionRate |-> Rate(2, 5), ZombieRate |-> Rate(1, 25),
                             DeathRate |-> Rate(1, 4), ZombieDeathRate |-> Rate(1, 2) ],
                           [ InfectionRate |-> Rate(3, 4), ZombieRate |-> Rate(1, 2),
                             DeathRate |-> Rate(3, 4), ZombieDeathRate |-> Rate(5, 4) ] }

-----------------------------------------------------------------------------
(* The state after the globals are initialised and the flags are parsed *)

\* the state main starts from: variant v built as b, horizon of the given
\* years, rates r, -s s and -i i
Start(v, b, years, r, s, i) ==
    /\ argv = << >>
    /\ argi = 1
    /\ errors = << >>
    /\ variant = v
    /\ build = b
    /\ NumYears = StartYear(v) + years
    /\ rates = r
    /\ NowYear = StartYear(v)
    /\ NowMonth = 0
    /\ Current = InitialCurrent(v, s, i)
    /\ next = [ w \in Workers(v) |-> 0 ]
    /\ tempMonth = 0
    /\ tempYear = 0
    /\ pcMain = "subtract"
    /\ pc = [ t \in Tasks(v) |-> "idle" ]
    /\ count = 0
    /\ gen = 0
    /\ mygen = [ t \in Tasks(v) |-> 0 ]
    /\ reports = << >>
    /\ iter = [ t \in Tasks(v) |-> 0 ]
    /\ committed = InitialCurrent(v, s, i)

\* finite rates: no conversion is out of range, and the builds agree
Init ==
    \E v \in Variants, years \in 0 .. MaxYears :
        \E r \in RateInputs(v), s \in SusceptibleInputs(v), i \in InfectedInputs :
            Start(v, "x86-64", years, r, s, i)

\* -g inf with the defaults of SIR, on either build
InfiniteInit ==
    \E b \in Builds, years \in 0 .. MaxYears, i \in InfectedInputs :
        Start("SIR", b, years, [ DefaultRates EXCEPT !.RecoveryRate = Infinity ],
              DefaultSusceptible, i)

\* the command lines of dicloniusPopulation: none, the default values, a
\* negative number of Queens
DicloniusArgs ==
    { << >>,
      << << "1", "7", "3", "0", "0", "0" >>, << "1", "0" >>, << "1" >>, << "3", "5" >> >>,
      << << "1", "7", "3", "0", "0", "0" >>, << "1", "0" >>, << "-", "1", "0", "0" >>,
         << "3", "5" >> >> }

\* dicloniusPopulation started with the arguments a and EndYear the given
\* years after StartYear
DicloniusInit ==
    \E a \in DicloniusArgs, years \in 0 .. MaxYears :
        /\ argv = a
        /\ argi = 1
        /\ errors = << >>
        /\ variant = "Diclonius"
        /\ build = "x86-64"
        /\ NumYears = DicloniusStartYear + years
        /\ rates = DicloniusRates
        /\ NowYear = DicloniusStartYear
        /\ NowMonth = 0
        /\ Current = DicloniusDefaults
        /\ next = [ w \in Workers("Diclonius") |-> 0 ]
        /\ tempMonth = 0
        /\ tempYear = 0
        /\ pcMain = "atoi"
        /\ pc = [ t \in Tasks("Diclonius") |-> "idle" ]
        /\ count = 0
        /\ gen = 0
        /\ mygen = [ t \in Tasks("Diclonius") |-> 0 ]
        /\ reports = << >>
        /\ iter = [ t \in Tasks("Diclonius") |-> 0 ]
        /\ committed = DicloniusDefaults

\* the command lines of the SIR program
ParseArgs ==
    { << >>,
      << << "-", "s" >> >>,
      << << "-", "i" >>, << "2", "0" >>, << "-", "s" >> >>,
      << << "-", "s" >>, << "-", "5" >> >>,
      << << "-", "g" >>, << "-", "0", ".", "5" >> >>,
      << << "-", "s" >>, << "5", "a", "b", "c" >> >>,
      << << "-", "s" >>, << "a", "b", "c" >> >>,
      << << "-", "b" >>, << "0", ".", "4", "x" >> >>,
      << << "-", "x" >>, << "1" >> >>,
      << << "-", "i" >>, << "2", "0" >>, << "-", "x" >>, << "1" >> >>,
      << << "7" >>, << "-", "i" >>, << "2", "0" >> >>,
      << << "-", "s" >>, << "1", "7", "5", "0", "1", "0" >> >>,
      << << "-", "b" >>, << "1", ".", "5" >>, << "-", "g" >>, << "1", ".", "2", "5" >> >> }

\* the infected population the global starts with
DefaultInfected == 10

\* the SIR program at the entry of main: the globals have their initial values
\* and the command line is one of ParseArgs
ParseInit ==
    \E a \in ParseArgs, years \in 0 .. MaxYears :
        /\ argv = a
        /\ argi = 1
        /\ errors = << >>
        /\ variant = "SIR"
        /\ build = "x86-64"
        /\ NumYears = StartYear("SIR") + years
        /\ rates = DefaultRates
        /\ NowYear = StartYear("SIR")
        /\ NowMonth = 0
        /\ Current = InitialCurrent("SIR", DefaultSusceptible, DefaultInfected)
        /\ next = [ w \in Workers("SIR") |-> 0 ]
        /\ tempMonth = 0
        /\ tempYear = 0
        /\ pcMain = "parse"
        /\ pc = [ t \in Tasks("SIR") |-> "idle" ]
        /\ count = 0
        /\ gen = 0
        /\ mygen = [ t \in Tasks("SIR") |-> 0 ]
        /\ reports = << >>
        /\ iter = [ t \in Tasks("SIR") |-> 0 ]
        /\ committed = InitialCurrent("SIR", DefaultSusceptible, DefaultInfected)

\* the command lines of influenzaModel
InfluenzaArgs ==
    { << >>,
      << << "-", "s" >>, << "1", "0", "0", "0" >> >>,
      << << "-", "i" >>, << "2", "0" >> >>,
      << << "-", "s" >>, << "1", "0", "0", "0" >>, << "-", "i" >>, << "2", "0" >> >>,
      << << "-", "i" >>, << "2", "0" >>, << "-", "s" >>, << "1", "0", "0", "0" >> >>,
      << << "-", "a" >>, << "0", ".", "5" >>, << "-", "r" >>, << "0", ".", "1" >> >>,
      << << "-", "s" >> >>,
      << << "-", "s" >>, << "-", "5" >> >>,
      << << "-", "g" >>, << "1" >> >>,
      << << "7" >>, << "-", "i" >>, << "2", "0" >> >> }

\* influenzaModel at the entry of main: the globals have their initial values,
\* the horizon is END_YEAR and the command line is one of InfluenzaArgs
InfluenzaInit ==
    \E a \in InfluenzaArgs :
        /\ argv = a
        /\ argi = 1
        /\ errors = << >>
        /\ variant = "influenzaModel"
        /\ build = "x86-64"
        /\ NumYears = END_YEAR
        /\ rates = DefaultRates
        /\ NowYear = StartYear("influenzaModel")
        /\ NowMonth = 0
        /\ Current = InitialCurrent("influenzaModel", DefaultSusceptible, DefaultInfected)
        /\ next = [ w \in Workers("influenzaModel") |-> 0 ]
        /\ tempMonth = 0
        /\ tempYear = 0
        /\ pcMain = "parse"
        /\ pc = [ t \in Tasks("influenzaModel") |-> "idle" ]
        /\ count = 0
        /\ gen = 0
        /\ mygen = [ t \in Tasks("influenzaModel") |-> 0 ]
        /\ reports = << >>
        /\ iter = [ t \in Tasks("influenzaModel") |-> 0 ]
        /\ committed = InitialCurrent("influenzaModel", DefaultSusceptible, DefaultInfected)

\* the texts given to -y: every text of 1..MaxDigits characters over a few
\* digits, and texts around the ends of int and of long
YearsTexts ==
    UNION { [ 1 .. n -> {"0", "1", "9"} ] : n \in 1 .. MaxDigits }
    \cup { << "-", "1" >>,
           << "a", "b", "c" >>,
           << "1", "2", "x" >>,
           << "2", "1", "4", "7", "4", "8", "3", "6", "4", "7" >>,
           << "2", "1", "4", "7", "4", "8", "3", "6", "4", "8" >>,
           << "4", "2", "9", "4", "9", "6", "7", "2", "9", "6" >>,
           << "4", "2", "9", "4", "9", "6", "7", "2", "9", "7" >>,
           << "-", "2", "1", "4", "7", "4", "8", "3", "6", "4", "9" >>,
           << "9", "2", "2", "3", "3", "7", "2", "0", "3", "6",
              "8", "5", "4", "7", "7", "5", "8", "0", "7" >>,
           << "9", "2", "2", "3", "3", "7", "2", "0", "3", "6",
              "8", "5", "4", "7", "7", "5", "8", "0", "8" >>,
           << "1", "8", "4", "4", "6", "7", "4", "4", "0", "7",
              "3", "7", "0", "9", "5", "5", "1", "6", "1", "7" >> }

\* the SQEIR program at the entry of main, run as ./SQEIR_Model -y <text>
YearsInit ==
    \E text \in YearsTexts :
        /\ argv = << << "-", "y" >>, text >>
        /\ argi = 1
        /\ errors = << >>
        /\ variant = "SQEIR"
        /\ build = "x86-64"
        /\ NumYears = NUM_YEARS
        /\ rates = DefaultRates
        /\ NowYear = StartYear("SQEIR")
        /\ NowMonth = 0
        /\ Current = InitialCurrent("SQEIR", DefaultSusceptible, DefaultInfected)
        /\ next = [ w \in Workers("SQEIR") |-> 0 ]
        /\ tempMonth = 0
        /\ tempYear = 0
        /\ pcMain = "parse"
        /\ pc = [ t \in Tasks("SQEIR") |-> "idle" ]
        /\ count = 0
        /\ gen = 0
        /\ mygen = [ t \in Tasks("SQEIR") |-> 0 ]
        /\ reports = << >>
        /\ iter = [ t \in Tasks("SQEIR") |-> 0 ]
        /\ committed = InitialCurrent("SQEIR", DefaultSusceptible, DefaultInfected)

-----------------------------------------------------------------------------
(* main *)

\* one message on stderr that is not a report record
Message(k, f) == [ kind |-> k, flag |-> f ]

\* main of dicloniusPopulation.cpp: with four arguments each global is set by
\* atoi(); otherwise a message is printed whose "%s" has no string argument,
\* which is undefined: the process crashes or goes on with the defaults
MainAtoi ==
    /\ pcMain = "atoi"
    /\ IF Len(argv) = 4
       THEN /\ Current' = [ Humans     |-> atoi(argv[1]),
                            Carriers   |-> atoi(argv[2]),
                            Queens     |-> atoi(argv[3]),
                            Silphalets |-> atoi(argv[4]) ]
            /\ pcMain' = "parallel"
            /\ UNCHANGED errors
       ELSE /\ Current' = Current
            /\ \/ /\ pcMain' = "parallel"
                  /\ errors' = Append(errors, Message("defaults", << >>))
               \/ /\ pcMain' = "crashed"
                  /\ UNCHANGED errors
    /\ committed' = Current'
    /\ UNCHANGED << argv, argi, variant, build, NumYears, rates, NowYear, NowMonth, next,
                    tempMonth, tempYear, pc, count, gen, mygen, reports, iter >>

\* the globals the flags of the SIR program set
LongFlags == [ s |-> "Susceptible", i |-> "Infected" ]
DoubleFlags == [ b |-> "InfectionRate", g |-> "RecoveryRate" ]

\* exit(EXIT_FAILURE) after a message of kind k about the token f
Fail(k, f) ==
    /\ errors' = Append(errors, Message(k, f))
    /\ pcMain' = "failed"
    /\ UNCHANGED argi

\* what follows a parseLong or a parseDouble of the value of the flag f: the
\* process has exited, or the loop goes on after the value
Parsed(failure, f) ==
    IF failure = "none"
    THEN /\ argi' = argi + 2
         /\ UNCHANGED << errors, pcMain >>
    ELSE Fail(failure, f)

\* the flag is taken as if it had not been given
MissingValueIgnored(f) ==
    /\ pcMain' = "subtract"
    /\ UNCHANGED << argi, errors, Current, rates >>

\* if (str == nullptr): the error names the flag, then exit(EXIT_FAILURE)
MissingValue(f) ==
    /\ Fail("no argument", f)
    /\ UNCHANGED << Current, rates >>

\* the option is passed over together with its value
InvalidFlagSkipped(f) ==
    /\ argi' = argi + 2
    /\ UNCHANGED << pcMain, errors, Current, rates >>

\* default: the error names the flag, then exit(EXIT_FAILURE)
InvalidFlag(f) ==
    /\ Fail("invalid flag", f)
    /\ UNCHANGED << Current, rates >>

\* one iteration of the loop over argv: a token that is not an option is
\* skipped; an option reads the next token as its value
MainParseArg ==
    /\ pcMain = "parse"
    /\ IF argi > Len(argv)
       THEN /\ pcMain' = "subtract"
            /\ UNCHANGED << argi, errors, Current, rates >>
       ELSE IF Len(argv[argi]) = 0 \/ argv[argi][1] # "-"
       THEN /\ argi' = argi + 1
            /\ UNCHANGED << pcMain, errors, Current, rates >>
       ELSE IF argi + 1 > Len(argv)
       THEN MissingValue(argv[argi])
       ELSE LET c   == IF Len(argv[argi]) >= 2 THEN argv[argi][2] ELSE ""
                str == argv[argi + 1]
            IN  CASE c \in DOMAIN LongFlags ->
                       /\ Current' = [ Current EXCEPT ![LongFlags[c]] = parseLong(str).val ]
                       /\ rates' = rates
                       /\ Parsed(parseLong(str).failure, argv[argi])
                  [] c \in DOMAIN DoubleFlags ->
                       /\ rates' = [ rates EXCEPT ![DoubleFlags[c]] = parseDouble(str).val ]
                       /\ Current' = Current
                       /\ Parsed(parseDouble(str).failure, argv[argi])
                  [] OTHER -> InvalidFlag(argv[argi])
    /\ committed' = Current'
    /\ UNCHANGED << argv, variant, build, NumYears, NowYear, NowMonth, next, tempMonth,
                    tempYear, pc, count, gen, mygen, reports, iter >>

\* the globals the flags -a and -r of influenzaModel set
InfluenzaDoubleFlags == [ a |-> "InfectionRate", r |-> "RecoveryRate" ]

\* CurrentSusceptible -= CurrentInfected on the globals c
SubtractInfected(c) == [ c EXCEPT !.Susceptible = @ - c.Infected ]

\* one iteration of the loop over argv in main of influenzaModel.cpp: as in
\* SIR.cpp, but CurrentSusceptible -= CurrentInfected is the last statement of
\* the body of if (argv[i][0] == '-'), and the parallel region follows the
\* loop at once
InfluenzaParseArg ==
    /\ pcMain = "parse"
    /\ IF argi > Len(argv)
       THEN /\ pcMain' = "parallel"
            /\ UNCHANGED << argi, errors, Current, rates >>
       ELSE IF Len(argv[argi]) = 0 \/ argv[argi][1] # "-"
       THEN /\ argi' = argi + 1
            /\ UNCHANGED << pcMain, errors, Current, rates >>
       ELSE IF argi + 1 > Len(argv)
       THEN MissingValue(argv[argi])
       ELSE LET c   == IF Len(argv[argi]) >= 2 THEN argv[argi][2] ELSE ""
                str == argv[argi + 1]
                set == [ Current EXCEPT ![LongFlags[c]] = parseLong(str).val ]
            IN  CASE c \in DOMAIN LongFlags ->
                       /\ Current' = IF parseLong(str).failure = "none"
                                     THEN SubtractInfected(set) ELSE set
                       /\ rates' = rates
                       /\ Parsed(parseLong(str).failure, argv[argi])
                  [] c \in DOMAIN InfluenzaDoubleFlags ->
                       /\ rates' = [ rates EXCEPT ![InfluenzaDoubleFlags[c]] =
                                                      parseDouble(str).val ]
                       /\ Current' = IF parseDouble(str).failure = "none"
                                     THEN SubtractInfected(Current) ELSE Current
                       /\ Parsed(parseDouble(str).failure, argv[argi])
                  [] OTHER ->
                       /\ Fail("invalid flag", argv[argi])
                       /\ UNCHANGED << Current, rates >>
    /\ committed' = Current'
    /\ UNCHANGED << argv, variant, build, NumYears, NowYear, NowMonth, next, tempMonth,
                    tempYear, pc, count, gen, mygen, reports, iter >>

\* the iteration of the loop over argv of SQEIR.cpp that handles -y:
\* parseInt(&NumYears, str)
MainParseYears ==
    /\ pcMain = "parse"
    /\ argi + 1 <= Len(argv)
    /\ argv[argi] = << "-", "y" >>
    /\ NumYears' = IF parseInt(argv[argi + 1]).failure = "none"
                   THEN parseInt(argv[argi + 1]).val ELSE NumYears
    /\ Parsed(parseInt(argv[argi + 1]).failure, argv[argi])
    /\ UNCHANGED << argv, variant, build, rates, NowYear, NowMonth, Current, next,
                    tempMonth, tempYear, pc, count, gen, mygen, reports, iter,
                    committed >>

\* the populations main takes out of CurrentSusceptible
Subtracted(v, c) ==
    IF v = "SIInZD" THEN c.Infected + c.Immune + c.Zombies ELSE c.Infected

\* one record of the report stream: the clock and every compartment
Record(y, m, c) == [ year |-> y, month |-> m, values |-> c ]

\* the month number is 12 times the year plus the month in every program
printMonthAbsolute(v, y, m) == m + (LastMonth + 1) * y

\* printMonth of the CSV build: NowMonth + 12 * NowYear in SIR.c and SQEIR.c,
\* NowMonth + 12 * (NowYear - START_YEAR) in SIInZD.c and influenzaModel.cpp
printMonth(v, y, m) ==
    m + (LastMonth + 1) * (IF v \in {"SIInZD", "influenzaModel"} THEN y - START_YEAR ELSE y)

\* the line of the CSV build for the record rec: the month number, then the
\* compartments in the order of the fprintf
CsvRecord(v, rec) ==
    [ index  |-> printMonth(v, rec.year, rec.month),
      values |-> [ k \in 1 .. Len(Order(v)) |-> rec.values[Order(v)[k]] ] ]

\* the sum of the first n compartments of c in the declared order
RECURSIVE TotalOf(_, _, _)
TotalOf(v, c, n) ==
    IF n = 0 THEN 0 ELSE TotalOf(v, c, n - 1) + c[Order(v)[n]]

\* "Total Population" of the DEBUG build: the sum of every compartment
TotalPopulationOf(v, c) == TotalOf(v, c, Len(Order(v)))

\* CurrentSusceptible -= CurrentInfected (and Immune, Zombies in SIInZD)
MainSubtract ==
    /\ pcMain = "subtract"
    /\ Current' = [ Current EXCEPT !.Susceptible = @ - Subtracted(variant, Current) ]
    /\ committed' = Current'
    /\ pcMain' = "report"
    /\ UNCHANGED << argv, argi, errors, variant, build, NumYears, rates, NowYear, NowMonth, next, tempMonth,
                    tempYear, pc, count, gen, mygen, reports, iter >>

\* the record of the initial populations
MainReport ==
    /\ pcMain = "report"
    /\ reports' = Append(reports, Record(NowYear, NowMonth, Current))
    /\ pcMain' = "incMonth"
    /\ UNCHANGED << argv, argi, errors, variant, build, NumYears, rates, NowYear, NowMonth, Current, next,
                    tempMonth, tempYear, pc, count, gen, mygen, iter, committed >>

\* main goes on to the parallel region without its NowMonth++
MainNoIncMonth ==
    /\ pcMain = "incMonth"
    /\ pcMain' = "parallel"
    /\ UNCHANGED << argv, argi, errors, variant, build, NumYears, rates, NowYear, NowMonth, Current, next,
                    tempMonth, tempYear, pc, count, gen, mygen, reports, iter,
                    committed >>

\* NowMonth++
MainIncMonth ==
    /\ pcMain = "incMonth"
    /\ NowMonth' = NowMonth + 1
    /\ pcMain' = "parallel"
    /\ UNCHANGED << argv, argi, errors, variant, build, NumYears, rates, NowYear, Current, next, tempMonth,
                    tempYear, pc, count, gen, mygen, reports, iter, committed >>

\* the end of the parallel region: every section has returned
MainJoin ==
    /\ pcMain = "parallel"
    /\ \A t \in Tasks(variant) : pc[t] = "done"
    /\ pcMain' = "exit"
    /\ UNCHANGED << argv, argi, errors, variant, build, NumYears, rates, NowYear, NowMonth, Current, next,
                    tempMonth, tempYear, pc, count, gen, mygen, reports, iter,
                    committed >>

-----------------------------------------------------------------------------
(* The team barrier *)

\* a barrier that opens one arrival early
LastArrivalEarly == count + 1 >= NUMT(variant) - 1

\* a barrier that expects one thread more than there are sections
LastArrivalNever == count + 1 = NUMT(variant) + 1

\* this arrival is the last one of the generation
LastArrival == count + 1 = NUMT(variant)

\* task t arrives at a barrier and waits at position w
Arrive(t, w) ==
    /\ count' = IF LastArrival THEN 0 ELSE count + 1
    /\ gen' = IF LastArrival THEN 1 - gen ELSE gen
    /\ mygen' = [ mygen EXCEPT ![t] = gen ]
    /\ pc' = [ pc EXCEPT ![t] = w ]

\* a barrier no task waits at
ReleasedAlways(t) == TRUE

\* the barrier task t waits at has opened
Released(t) == gen # mygen[t]

-----------------------------------------------------------------------------
(* The sections *)

\* a thread of the team starts section t; Recovered() initialises its local
Enter(t) ==
    /\ pcMain = "parallel"
    /\ pc[t] = "idle"
    /\ pc' = [ pc EXCEPT ![t] = "while" ]
    /\ next' = IF t \in Workers(variant) /\ Accumulates(variant, t)
               THEN [ next EXCEPT ![t] = Current[t] ]
               ELSE next
    /\ UNCHANGED << argv, argi, errors, variant, build, NumYears, rates, NowYear, NowMonth, Current, tempMonth,
                    tempYear, pcMain, count, gen, mygen, reports, iter, committed >>

\* a loop that runs through the horizon year as well
LoopConditionInclusive == NowYear <= NumYears

\* while( NowYear < NumYears )
LoopCondition == NowYear < NumYears

\* task t is at its loop condition: it has entered its function, or the
\* DonePrinting barrier it waits at has opened
AtLoopCondition(t) == pc[t] = "while" \/ (pc[t] = "w3" /\ Released(t))

\* a worker evaluates its loop condition
WorkerLoop(w) ==
    /\ w \in Workers(variant)
    /\ AtLoopCondition(w)
    /\ IF LoopCondition
       THEN /\ pc' = [ pc EXCEPT ![w] = "compute" ]
            /\ iter' = [ iter EXCEPT ![w] = @ + 1 ]
            /\ UNCHANGED << count, gen, mygen >>
       ELSE /\ Arrive(w, "wend")
            /\ UNCHANGED iter
    /\ UNCHANGED << argv, argi, errors, variant, build, NumYears, rates, NowYear, NowMonth, Current, next,
                    tempMonth, tempYear, pcMain, reports, committed >>

\* compute phase, then the DoneComputing barrier
Compute(w) ==
    /\ w \in Workers(variant)
    /\ pc[w] = "compute"
    /\ next' = [ next EXCEPT ![w] =
                     Computed(build, variant, w, Current, rates, next[w]) ]
    /\ Arrive(w, "w1")
    /\ UNCHANGED << argv, argi, errors, variant, build, NumYears, rates, NowYear, NowMonth, Current, tempMonth,
                    tempYear, pcMain, reports, iter, committed >>

\* the DoneComputing barrier opens for a worker
WorkerPassComputing(w) ==
    /\ w \in Workers(variant)
    /\ pc[w] = "w1"
    /\ Released(w)
    /\ pc' = [ pc EXCEPT ![w] = "commit" ]
    /\ UNCHANGED << argv, argi, errors, variant, build, NumYears, rates, NowYear, NowMonth, Current, next,
                    tempMonth, tempYear, pcMain, count, gen, mygen, reports, iter,
                    committed >>

\* a worker that assigns its next value to the global of another worker
CommitOther(w) ==
    /\ w \in Workers(variant)
    /\ pc[w] = "commit"
    /\ Current' = [ Current EXCEPT ![CHOOSE u \in Workers(variant) : u # w] = next[w] ]
    /\ committed' = IF LastArrival THEN Current' ELSE committed
    /\ Arrive(w, "w2")
    /\ UNCHANGED << argv, argi, errors, variant, build, NumYears, rates, NowYear, NowMonth,
                    next, tempMonth, tempYear, pcMain, reports, iter >>

\* Current<X> = next<X>, then the DoneAssigning barrier
Commit(w) ==
    /\ w \in Workers(variant)
    /\ pc[w] = "commit"
    /\ Current' = [ Current EXCEPT ![w] = next[w] ]
    /\ committed' = IF LastArrival THEN Current' ELSE committed
    /\ Arrive(w, "w2")
    /\ UNCHANGED << argv, argi, errors, variant, build, NumYears, rates, NowYear, NowMonth, next, tempMonth,
                    tempYear, pcMain, reports, iter >>

\* the DoneAssigning barrier opens for a worker, which goes on to DonePrinting
WorkerPassAssigning(w) ==
    /\ w \in Workers(variant)
    /\ pc[w] = "w2"
    /\ Released(w)
    /\ Arrive(w, "w3")
    /\ UNCHANGED << argv, argi, errors, variant, build, NumYears, rates, NowYear, NowMonth, Current, next,
                    tempMonth, tempYear, pcMain, reports, iter, committed >>

\* a Watcher whose loop runs through the horizon year as well
WatcherLoopInclusive ==
    /\ AtLoopCondition("Watcher")
    /\ IF LoopConditionInclusive
       THEN /\ Arrive("Watcher", "w1")
            /\ iter' = [ iter EXCEPT !["Watcher"] = @ + 1 ]
       ELSE /\ Arrive("Watcher", "wend")
            /\ UNCHANGED iter
    /\ UNCHANGED << argv, argi, errors, variant, build, NumYears, rates, NowYear, NowMonth, Current, next,
                    tempMonth, tempYear, pcMain, reports, committed >>

\* the Watcher evaluates its loop condition and goes to the DoneComputing barrier
WatcherLoop ==
    /\ AtLoopCondition("Watcher")
    /\ IF LoopCondition
       THEN /\ Arrive("Watcher", "w1")
            /\ iter' = [ iter EXCEPT !["Watcher"] = @ + 1 ]
       ELSE /\ Arrive("Watcher", "wend")
            /\ UNCHANGED iter
    /\ UNCHANGED << argv, argi, errors, variant, build, NumYears, rates, NowYear, NowMonth, Current, next,
                    tempMonth, tempYear, pcMain, reports, committed >>

\* DoneComputing opens for the Watcher, which goes on to DoneAssigning
WatcherPassComputing ==
    /\ pc["Watcher"] = "w1"
    /\ Released("Watcher")
    /\ committed' = IF LastArrival THEN Current ELSE committed
    /\ Arrive("Watcher", "w2")
    /\ UNCHANGED << argv, argi, errors, variant, build, NumYears, rates, NowYear, NowMonth, Current, next,
                    tempMonth, tempYear, pcMain, reports, iter >>

\* DoneAssigning opens for the Watcher
WatcherPassAssigning ==
    /\ pc["Watcher"] = "w2"
    /\ Released("Watcher")
    /\ pc' = [ pc EXCEPT !["Watcher"] = "print" ]
    /\ UNCHANGED << argv, argi, errors, variant, build, NumYears, rates, NowYear, NowMonth, Current, next,
                    tempMonth, tempYear, pcMain, count, gen, mygen, reports, iter,
                    committed >>

\* fprintf of the round's record
WatcherPrint ==
    /\ pc["Watcher"] = "print"
    /\ reports' = Append(reports, Record(NowYear, NowMonth, Current))
    /\ pc' = [ pc EXCEPT !["Watcher"] = "temp" ]
    /\ UNCHANGED << argv, argi, errors, variant, build, NumYears, rates, NowYear, NowMonth, Current, next,
                    tempMonth, tempYear, pcMain, count, gen, mygen, iter, committed >>

\* a Watcher without the wrap of the month
WatcherTempNoWrap ==
    /\ pc["Watcher"] = "temp"
    /\ tempMonth' = NowMonth + 1
    /\ tempYear' = NowYear
    /\ pc' = [ pc EXCEPT !["Watcher"] = "storeMonth" ]
    /\ UNCHANGED << argv, argi, errors, variant, build, NumYears, rates, NowYear, NowMonth,
                    Current, next, pcMain, count, gen, mygen, reports, iter, committed >>

\* tempYear = NowYear; tempMonth = NowMonth + 1; if (tempMonth > 11) ...
WatcherTemp ==
    /\ pc["Watcher"] = "temp"
    /\ tempMonth' = IF NowMonth + 1 > LastMonth THEN 0 ELSE NowMonth + 1
    /\ tempYear' = IF NowMonth + 1 > LastMonth THEN NowYear + 1 ELSE NowYear
    /\ pc' = [ pc EXCEPT !["Watcher"] = "storeMonth" ]
    /\ UNCHANGED << argv, argi, errors, variant, build, NumYears, rates, NowYear, NowMonth, Current, next,
                    pcMain, count, gen, mygen, reports, iter, committed >>

\* NowMonth = tempMonth
WatcherStoreMonth ==
    /\ pc["Watcher"] = "storeMonth"
    /\ NowMonth' = tempMonth
    /\ pc' = [ pc EXCEPT !["Watcher"] = "storeYear" ]
    /\ UNCHANGED << argv, argi, errors, variant, build, NumYears, rates, NowYear, Current, next, tempMonth,
                    tempYear, pcMain, count, gen, mygen, reports, iter, committed >>

\* NowYear = tempYear, then the DonePrinting barrier
WatcherStoreYear ==
    /\ pc["Watcher"] = "storeYear"
    /\ NowYear' = tempYear
    /\ Arrive("Watcher", "w3")
    /\ UNCHANGED << argv, argi, errors, variant, build, NumYears, rates, NowMonth, Current, next, tempMonth,
                    tempYear, pcMain, reports, iter, committed >>

\* the barrier that ends the sections opens: the section's thread is done
PassEnd(t) ==
    /\ pc[t] = "wend"
    /\ Released(t)
    /\ pc' = [ pc EXCEPT ![t] = "done" ]
    /\ UNCHANGED << argv, argi, errors, variant, build, NumYears, rates, NowYear, NowMonth, Current, next,
                    tempMonth, tempYear, pcMain, count, gen, mygen, reports, iter,
                    committed >>

Next ==
    \/ MainSubtract
    \/ MainReport
    \/ MainIncMonth
    \/ MainJoin
    \/ \E t \in Tasks(variant) : Enter(t)
    \/ \E w \in Workers(variant) : WorkerLoop(w)
    \/ \E w \in Workers(variant) : Compute(w)
    \/ \E w \in Workers(variant) : WorkerPassComputing(w)
    \/ \E w \in Workers(variant) : Commit(w)
    \/ \E w \in Workers(variant) : WorkerPassAssigning(w)
    \/ WatcherLoop
    \/ WatcherPassComputing
    \/ WatcherPassAssigning
    \/ WatcherPrint
    \/ WatcherTemp
    \/ WatcherStoreMonth
    \/ WatcherStoreYear
    \/ \E t \in Tasks(variant) : PassEnd(t)

Spec == Init /\ [][Next]_vars


\* the operating system schedules every runnable thread: some enabled step is
\* eventually taken
FairSpec == Spec /\ WF_vars(Next)

\* the runs of SIR with -g inf
InfiniteSpec == InfiniteInit /\ [][Next]_vars

\* the steps of the sections, whatever the program
SectionStep ==
    \/ \E t \in Tasks(variant) : Enter(t)
    \/ \E w \in Workers(variant) : WorkerLoop(w)
    \/ \E w \in Workers(variant) : Compute(w)
    \/ \E w \in Workers(variant) : WorkerPassComputing(w)
    \/ \E w \in Workers(variant) : Commit(w)
    \/ \E w \in Workers(variant) : WorkerPassAssigning(w)
    \/ WatcherLoop
    \/ WatcherPassComputing
    \/ WatcherPassAssigning
    \/ WatcherPrint
    \/ WatcherTemp
    \/ WatcherStoreMonth
    \/ WatcherStoreYear
    \/ \E t \in Tasks(variant) : PassEnd(t)

\* dicloniusPopulation: main goes from its arguments to the parallel region
DicloniusNext ==
    \/ MainAtoi
    \/ MainJoin
    \/ SectionStep

DicloniusSpec == DicloniusInit /\ [][DicloniusNext]_vars

\* the SIR program from its command line on
ParseNext ==
    \/ MainParseArg
    \/ Next

ParseSpec == ParseInit /\ [][ParseNext]_vars

\* influenzaModel: main goes from its flags to the parallel region
InfluenzaNext ==
    \/ InfluenzaParseArg
    \/ MainJoin
    \/ SectionStep

InfluenzaSpec == InfluenzaInit /\ [][InfluenzaNext]_vars

\* the SQEIR program run with -y: the conversion of the horizon
YearsNext == MainParseYears

YearsSpec == YearsInit /\ [][YearsNext]_vars

-----------------------------------------------------------------------------
(* Derived notions used by the properties *)

MonthsPerYear == LastMonth + 1

\* the clock as a number of months
LinearMonth == MonthsPerYear * NowYear + NowMonth

\* the clock value of the initial state, in months
StartMonth == MonthsPerYear * StartYear(variant)

\* positions inside the loop body
AfterCommit == {"w2", "w3"}
WatcherReporting == {"print", "temp", "storeMonth", "storeYear"}
LeftLoop == {"wend", "done"}

\* task t has arrived at the DoneComputing barrier of the round it is in
ArrivedComputing(t) ==
    pc[t] \in {"w1", "commit", "w2", "w3"} \cup WatcherReporting

\* one round applied to the values c as a single simultaneous assignment
RoundUpdate(c) ==
    [ w \in Workers(variant) |-> Rule(variant, w, c, rates, c[w]) ]

\* the number of records of a whole run: the initial record and one per round
ExpectedRecords ==
    IF NumYears > StartYear(variant)
    THEN MonthsPerYear * (NumYears - StartYear(variant))
    ELSE 1

-----------------------------------------------------------------------------
(* C1  Snapshot isolation.  Whenever a worker executes its compute phase,   *)
(* every compartment still holds the value committed at the end of the      *)
(* previous round (the initial value in round 1), and the value the worker  *)
(* then commits is its update rule applied to those values.                 *)
C1_SnapshotIsolation ==
    [][ \A w \in Workers(variant) :
          /\ (pc[w] = "compute" /\ pc'[w] # "compute") => Current = committed
          /\ (pc[w] = "commit" /\ pc'[w] # "commit")
                => Current'[w] = RoundUpdate(committed)[w] ]_vars

\* a worker has committed a changed value in round 2 while another one has not
C1_Witness ==
    \E w, u \in Workers(variant) :
        /\ pc[w] = "w2" /\ pc[u] = "commit"
        /\ iter[w] = 2
        /\ Current[w] # committed[w]

(* C2  Barrier 1 ordering.  When a worker is about to execute its commit    *)
(* write of round r, every task of the team has begun round r and has       *)
(* arrived at the DoneComputing barrier of that round.                      *)
C2_Barrier1Ordering ==
    \A w \in Workers(variant) :
        pc[w] = "commit" =>
            \A t \in Tasks(variant) : iter[t] = iter[w] /\ ArrivedComputing(t)

\* one worker is about to commit while another still sits at the opened barrier
C2_Witness ==
    \E w, u \in Workers(variant) :
        pc[w] = "commit" /\ pc[u] = "w1" /\ iter[w] = 2

(* C3  Synchronized termination.  Once a task has left its loop, no task is *)
(* inside a round: every other task is at its loop condition, has left too, *)
(* is resuming from the DonePrinting barrier that has opened, or has not    *)
(* been started yet.                                                        *)
C3_SynchronizedTermination ==
    \A a, b \in Tasks(variant) :
        pc[a] \in LeftLoop =>
            \/ pc[b] \in LeftLoop \cup {"idle"}
            \/ AtLoopCondition(b)

\* after at least one round a task has left while another has yet to resume
C3_Witness ==
    \E a, b \in Tasks(variant) :
        pc[a] = "wend" /\ pc[b] = "w3" /\ iter[a] >= 1

(* C4  Termination.  Under fair scheduling every run reaches the end of     *)
(* main: every task leaves its loop and passes the final barrier.           *)
C4_Termination == <>(pcMain = "exit")

\* a run that executed rounds has ended
C4_Witness == pcMain = "exit" /\ Len(reports) > 1

(* C5 as stated: the run emits exactly 12 * (H - startYear) records.        *)
C5_Original ==
    pcMain = "exit" =>
        Len(reports) = MonthsPerYear * (NumYears - StartYear(variant))

(* C5  Report count, amended.  A run emits 12 * (H - startYear) records     *)
(* when H > startYear, the initial record of main included, and exactly one *)
(* record (the initial one) when H = startYear; never more.                 *)
C5_ReportCount ==
    /\ Len(reports) <= ExpectedRecords
    /\ pcMain = "exit" => Len(reports) = ExpectedRecords

\* a run over one year or more has ended
C5_Witness == pcMain = "exit" /\ NumYears > StartYear(variant)

(* C6 as stated: whatever populations and rates the parsers accept, every  *)
(* compartment whose worker has committed at least once holds a value >= 0, *)
(* the unclamped Recovered included.                                        *)
C6_NonNegative ==
    \A w \in Workers(variant) :
        (iter[w] >= 2 \/ (iter[w] = 1 /\ pc[w] \in AfterCommit \cup LeftLoop))
            => Current[w] >= 0

(* C7  Determinism.  In every schedule the report stream is the one a       *)
(* sequential run produces: record k is labelled with month k - 1 after the *)
(* start, its values are one simultaneous round applied to the values of    *)
(* record k - 1, and a finished run has the expected number of records.     *)
C7_Determinism ==
    /\ \A k \in 1 .. Len(reports) :
          /\ MonthsPerYear * reports[k].year + reports[k].month = StartMonth + k - 1
          /\ reports[k].month \in 0 .. LastMonth
          /\ k > 1 => reports[k].values = RoundUpdate(reports[k - 1].values)
    /\ pcMain = "exit" => Len(reports) = ExpectedRecords

\* a finished run of one year whose populations changed
C7_Witness ==
    /\ pcMain = "exit"
    /\ Len(reports) = MonthsPerYear
    /\ reports[MonthsPerYear].values # reports[1].values

(* C8  Report consistency.  The record of a round holds, for every          *)
(* compartment, the value its worker committed in that round, and no        *)
(* compartment changes while the Watcher is between the DoneAssigning and   *)
(* the DonePrinting barrier.                                                *)
C8_ReportConsistency ==
    [][ /\ pc["Watcher"] \in WatcherReporting => Current' = Current
        /\ (pc["Watcher"] = "print" /\ pc'["Watcher"] # "print") =>
              \A w \in Workers(variant) :
                  /\ iter[w] = iter["Watcher"]
                  /\ pc[w] \in AfterCommit
                  /\ reports'[Len(reports')].values[w] = next[w] ]_vars

\* the Watcher has printed a record that differs from the previous one
C8_Witness ==
    /\ pc["Watcher"] = "temp"
    /\ Len(reports) >= 3
    /\ reports[Len(reports)].values # reports[Len(reports) - 1].values

(* C9  Clock ordering.  While the Watcher writes the clock every worker has *)
(* committed the round and waits before the DonePrinting barrier; and a     *)
(* task that evaluates its loop condition for round r + 1, or computes in   *)
(* round r + 1, sees the clock already advanced for round r.                *)
C9_ClockOrdering ==
    /\ pc["Watcher"] \in {"storeMonth", "storeYear"} =>
          \A w \in Workers(variant) :
              iter[w] = iter["Watcher"] /\ pc[w] \in AfterCommit
    /\ \A t \in Tasks(variant) :
          /\ AtLoopCondition(t) => LinearMonth = StartMonth + 1 + iter[t]
          /\ pc[t] = "compute" => LinearMonth = StartMonth + iter[t]

\* the Watcher is about to store a new year
C9_Witness == pc["Watcher"] = "storeYear" /\ tempYear # NowYear

(* C10 as stated: only the Watcher ever changes NowMonth or NowYear.        *)
C10_Original ==
    [][ (NowMonth' # NowMonth \/ NowYear' # NowYear)
            => pc["Watcher"] \in {"storeMonth", "storeYear"} ]_vars

(* C10  Clock ownership, amended.  main increments NowMonth once, before    *)
(* the tasks are started; after that only the Watcher changes the clock, in *)
(* its two stores of a round, and the clock is one month past the start     *)
(* plus one month per round the Watcher has completed.                      *)
C10_ClockOwnership ==
    /\ [][ /\ NowMonth' # NowMonth =>
                \/ pcMain = "incMonth" /\ pcMain' = "parallel"
                \/ pc["Watcher"] = "storeMonth" /\ pc'["Watcher"] = "storeYear"
           /\ NowYear' # NowYear =>
                pc["Watcher"] = "storeYear" /\ pc'["Watcher"] = "w3" ]_vars
    /\ [](pcMain \in {"parallel", "exit"} =>
             /\ pc["Watcher"] \in {"w1", "w2", "print", "temp", "storeMonth"}
                   => LinearMonth = StartMonth + iter["Watcher"]
             /\ pc["Watcher"] \in {"idle", "while", "w3"} \cup LeftLoop
                   => LinearMonth = StartMonth + 1 + iter["Watcher"])

\* the Watcher has stored the first month of a new year
C10_Witness ==
    pc["Watcher"] = "w3" /\ NowMonth = 0 /\ NowYear = StartYear(variant) + 1

(* C11  Exclusive write per field.  While the tasks run, a compartment      *)
(* changes only in the commit step of its own worker, between the           *)
(* DoneComputing and the DoneAssigning barrier; that step writes the        *)
(* worker's own compartment and no other, and no step of the Watcher        *)
(* changes a compartment.                                                   *)
C11_ExclusiveWrite ==
    [][ pcMain = "parallel" =>
          /\ \A x \in Workers(variant) :
                Current'[x] # Current[x] => (pc[x] = "commit" /\ pc'[x] = "w2")
          /\ \A w \in Workers(variant) :
                (pc[w] = "commit" /\ pc'[w] = "w2")
                    => Current' = [ Current EXCEPT ![w] = next[w] ]
          /\ pc'["Watcher"] # pc["Watcher"] => Current' = Current ]_vars

\* in round 1 a worker has written its new value while another, whose value
\* will change too, has not written yet
C11_Witness ==
    \E w, u \in Workers(variant) :
        /\ pc[w] = "w2" /\ pc[u] = "commit"
        /\ iter[w] = 1
        /\ Current[w] # committed[w]
        /\ Current[u] = committed[u] /\ next[u] # Current[u]

(* C12 as stated: NowYear never exceeds the horizon, and once NowYear has   *)
(* reached the horizon no step changes the clock, whatever the horizon.     *)
C12_Original ==
    /\ [](NowYear <= NumYears)
    /\ [][ NowYear = NumYears => (NowMonth' = NowMonth /\ NowYear' = NowYear) ]_vars

(* C12  Horizon bound, amended.  NowYear never exceeds the horizon, and     *)
(* once NowYear has reached the horizon no task changes the clock; the one  *)
(* change of the clock at the horizon is the NowMonth++ of main, when the   *)
(* horizon is the starting year, which leaves the clock at month 1 of it.   *)
C12_HorizonBound ==
    /\ [](NowYear <= NumYears)
    /\ [][ (NowYear = NumYears /\ (NowMonth' # NowMonth \/ NowYear' # NowYear))
              => /\ pcMain = "incMonth" /\ pcMain' = "parallel"
                 /\ NumYears = StartYear(variant)
                 /\ NowMonth' = 1 /\ NowYear' = NowYear ]_vars

\* the clock has reached a horizon that lies after the starting year
C12_Witness ==
    /\ NowYear = NumYears /\ NumYears > StartYear(variant)
    /\ pc["Watcher"] = "wend"

(* C13  Clock step.  NowMonth is within 0 .. 11 in every state; the         *)
(* Watcher's store of the month makes NowMonth + 1 of a month below 11 and  *)
(* 0 of month 11, and its store of the year adds exactly 1 to NowYear when  *)
(* the month has wrapped to 0 and leaves NowYear alone otherwise.           *)
C13_ClockStep ==
    /\ [](NowMonth \in 0 .. LastMonth)
    /\ [][ /\ (pc["Watcher"] = "storeMonth" /\ pc'["Watcher"] = "storeYear")
                => /\ NowMonth' = IF NowMonth < LastMonth THEN NowMonth + 1 ELSE 0
                   /\ NowYear' = NowYear
           /\ (pc["Watcher"] = "storeYear" /\ pc'["Watcher"] = "w3")
                => /\ NowMonth' = NowMonth
                   /\ NowYear' = IF NowMonth = 0 THEN NowYear + 1 ELSE NowYear ]_vars

\* the Watcher has stored month 0 after month 11 and is about to store the year
C13_Witness ==
    /\ pc["Watcher"] = "storeYear"
    /\ NowMonth = 0 /\ tempMonth = 0
    /\ tempYear = NowYear + 1

-----------------------------------------------------------------------------
(* The population-growth model (dicloniusPopulation)                         *)

\* current + inflows - outflows of worker w before any clamp, from the shared
\* values c and the worker's own value acc
RawNext(w, c, r, acc) ==
    CASE w = "Humans"     -> D_HumansRaw(c, r)
      [] w = "Carriers"   -> D_Carriers(c, r)
      [] w = "Queens"     -> D_Queens(c, r, acc)
      [] w = "Silphalets" -> D_Silphalets(c, r, acc)

(* C14 as stated: the value a worker commits is 0 when its raw next value   *)
(* (current + inflows - outflows) is negative, and the raw value otherwise. *)
C14_ClampCorrectness ==
    [][ \A w \in Workers(variant) :
          (pc[w] = "commit" /\ pc'[w] = "w2")
              => Current'[w] = Clamp(RawNext(w, committed, rates, Current[w])) ]_vars

(* C17 as stated: every term is rounded half away from zero before it is    *)
(* added to or subtracted from the compartment; neither a term nor the      *)
(* running value is truncated toward zero.                                  *)
C17_Rounding ==
    [][ LET births   == HumanBirths(committed, rates)
            infected == Infections(committed, rates)
            in       == RoundDiv(births.num, births.den)
            out      == RoundDiv(infected.num, infected.den)
        IN  /\ (pc["Humans"] = "commit" /\ pc'["Humans"] = "w2")
                  => Current'["Humans"] = Clamp(committed["Humans"] + in - out)
            /\ (pc["Carriers"] = "commit" /\ pc'["Carriers"] = "w2")
                  => Current'["Carriers"] = Clamp(committed["Carriers"] + out) ]_vars

-----------------------------------------------------------------------------
(* The example scenario and the shape of the update rules                    *)

\* the fraction r is n / d
RateIs(r, n, d) == r.den # 0 /\ r.num * d = n * r.den

(* C15 as stated: from Susceptible = 175000, Infected = 10, Recovered = 0    *)
(* with InfectionRate 0.4 and RecoveryRate 0.04, round 1 commits             *)
(* Susceptible = 174996, Infected = 70010 and Recovered = 0.                 *)
C15_ExampleScenario ==
    ( /\ variant = "SIR"
      /\ RateIs(rates.InfectionRate, 2, 5)
      /\ RateIs(rates.RecoveryRate, 1, 25)
      /\ Len(reports) >= 2
      /\ reports[1].values = [ Susceptible |-> 175000, Infected |-> 10, Recovered |-> 0 ] )
        => reports[2].values = [ Susceptible |-> 174996, Infected |-> 70010, Recovered |-> 0 ]

(* C16 as stated, for the SIR program: the value a worker commits is its     *)
(* current value plus inflows minus outflows, clamped at 0, where every      *)
(* inflow and outflow is round(C * rate) for the pre-commit value C of one   *)
(* compartment and one rate of the rate table.                               *)
C16_GenericUpdateRule ==
    [][ variant = "SIR" =>
          \A w \in Workers(variant) :
              (pc[w] = "commit" /\ pc'[w] = "w2") =>
                  \E sign \in [ (DOMAIN committed) \X (DOMAIN rates) -> {-1, 0, 1} ] :
                      LET T(x, q) == sign[<< x, q >>] * Round(committed[x], rates[q])
                      IN  Current'[w] =
                              Clamp(Current[w]
                                    + T("Susceptible", "InfectionRate")
                                    + T("Susceptible", "RecoveryRate")
                                    + T("Infected", "InfectionRate")
                                    + T("Infected", "RecoveryRate")
                                    + T("Recovered", "InfectionRate")
                                    + T("Recovered", "RecoveryRate")) ]_vars

-----------------------------------------------------------------------------
(* The command line                                                          *)

\* the token s is a number below zero
NegativeNumber(s) == strtod(s).endptr # 0 /\ strtod(s).val.num < 0

\* main has not reached the subtraction, the initial report or the parallel
\* region, and no section has started
NothingRun ==
    /\ pcMain \in {"atoi", "parse", "failed"}
    /\ reports = << >>
    /\ \A t \in Tasks(variant) : pc[t] = "idle" /\ iter[t] = 0

(* C18 as stated: in every program that takes its configuration from the     *)
(* command line, a negative population or rate makes the process exit with   *)
(* failure before the round loop starts and before any record is emitted.    *)
C18_NegativeRejected ==
    (\E k \in 1 .. Len(argv) : NegativeNumber(argv[k])) => NothingRun

\* the loop over argv is at the option argv[argi]
AtOption ==
    /\ pcMain = "parse"
    /\ argi <= Len(argv)
    /\ Len(argv[argi]) > 0
    /\ argv[argi][1] = "-"

(* C19: when an option is the last argument, with no value after it, the     *)
(* process exits with failure and an error that names the option; the        *)
(* globals are not changed by it, and a process that has exited has emitted  *)
(* no record, not even the initial one, and started no section.              *)
C19_MissingFlagValue ==
    /\ [](pcMain = "failed" => NothingRun)
    /\ [][ (AtOption /\ argi = Len(argv)) =>
               /\ pcMain' = "failed"
               /\ errors' = Append(errors, Message("no argument", argv[argi]))
               /\ Current' = Current
               /\ rates' = rates
               /\ reports' = << >> ]_vars

\* -i 20 -s: the value of -i is stored, then -s is found to have no value
C19_Witness ==
    /\ pcMain = "failed"
    /\ Len(argv) = 3
    /\ errors = << Message("no argument", << "-", "s" >>) >>
    /\ Current.Infected = 20
    /\ Current.Susceptible = DefaultSusceptible

\* the text s is wholly a number: the conversion consumes all of it
WhollyNumeric(s, double) ==
    IF double THEN strtod(s).endptr = Len(s) /\ Len(s) > 0
    ELSE strtol(s, 0).endptr = Len(s) /\ Len(s) > 0

(* C20 as stated: a flag value that is not wholly a valid number (no digits, *)
(* or a numeric prefix followed by other characters) makes the process exit  *)
(* with failure before the round loop starts.                                *)
C20_MalformedRejected ==
    [][ (AtOption /\ argi < Len(argv) /\ Len(argv[argi]) >= 2
           /\ argv[argi][2] \in DOMAIN LongFlags \cup DOMAIN DoubleFlags
           /\ ~WhollyNumeric(argv[argi + 1], argv[argi][2] \in DOMAIN DoubleFlags))
          => pcMain' = "failed" /\ reports' = << >> ]_vars

\* the token s begins with '-' and its option character is not a flag of the
\* SIR program
UnknownOption(s) ==
    /\ Len(s) > 0
    /\ s[1] = "-"
    /\ (Len(s) < 2 \/ s[2] \notin DOMAIN LongFlags \cup DOMAIN DoubleFlags)

-----------------------------------------------------------------------------
(* The report stream                                                         *)

C23_OneReportPerMonth ==
    /\ \A k \in 1 .. Len(reports) : reports[k].month + 1 \in 1 .. MonthsPerYear
    /\ \A k \in 1 .. Len(reports) - 1 :
           MonthsPerYear * reports[k + 1].year + reports[k + 1].month
               = MonthsPerYear * reports[k].year + reports[k].month + 1

\* a whole year has been reported, from main's record to month 12
C23_Witness ==
    /\ pcMain = "exit"
    /\ Len(reports) = MonthsPerYear
    /\ reports[1].month = 0
    /\ reports[MonthsPerYear].month = LastMonth

-----------------------------------------------------------------------------
(* The team                                                                  *)

\* the positions at which a task waits at a barrier
AtBarrier == {"w1", "w2", "w3", "wend"}

-----------------------------------------------------------------------------
(* Conservation of the population                                            *)

(* C25 as stated: in SIR and in SQEIR the sum of the compartments after the  *)
(* commits of every round, as shown by the record of that round, is the sum  *)
(* of the initial record.                                                    *)
C25_Conservation ==
    variant \in {"SIR", "SQEIR"} =>
        \A k \in 1 .. Len(reports) :
            TotalPopulationOf(variant, reports[k].values)
                = TotalPopulationOf(variant, reports[1].values)

(* C26 as stated: in the zombie model the sum Susceptible + Immune +         *)
(* Infected + Zombies + Dead of every record is the sum of the initial       *)
(* record.                                                                   *)
C26_ZombieConservation ==
    variant = "SIInZD" =>
        \A k \in 1 .. Len(reports) :
            TotalPopulationOf(variant, reports[k].values)
                = TotalPopulationOf(variant, reports[1].values)

-----------------------------------------------------------------------------
(* The initial populations                                                   *)

\* the value the flag c leaves configured when the loop over argv goes from
\* position k on with the value cur: the value of its last occurrence
RECURSIVE Configured(_, _, _)
Configured(c, k, cur) ==
    IF k > Len(argv) THEN cur
    ELSE IF Len(argv[k]) = 0 \/ argv[k][1] # "-" THEN Configured(c, k + 1, cur)
    ELSE IF k + 1 > Len(argv) THEN cur
    ELSE Configured(c, k + 2,
                    IF Len(argv[k]) >= 2 /\ argv[k][2] = c
                    THEN strtol(argv[k + 1], 0).val ELSE cur)

\* main is past the flags and the subtraction, and no round has started
BeforeFirstRound ==
    /\ pcMain \in {"report", "incMonth", "parallel"}
    /\ \A t \in Tasks(variant) : iter[t] = 0 /\ pc[t] \in {"idle", "while"}

(* C27 as stated: after argument parsing, Susceptible is the configured (or  *)
(* default) susceptible population minus the configured (or default)         *)
(* infected population: one subtraction, whatever the number and the order   *)
(* of the flags.                                                             *)
C27_InitialSusceptible ==
    BeforeFirstRound =>
        Current.Susceptible = Configured("s", 1, DefaultSusceptible)
                                - Configured("i", 1, DefaultInfected)
(* C28 as stated: for every accepted combination of flags, every compartment *)
(* is non-negative in the initial record and when the round loop starts, in  *)
(* particular Susceptible after the other initial populations have been      *)
(* subtracted from it.                                                       *)
C28_NonNegativeInitialState ==
    /\ Len(reports) >= 1 => \A w \in Workers(variant) : reports[1].values[w] >= 0
    /\ BeforeFirstRound => \A w \in Workers(variant) : Current[w] >= 0
-----------------------------------------------------------------------------
(* Lockstep rounds                                                           *)

\* the number of barriers of the loop body a task at position p of a round
\* has arrived at in that round
ArrivalsInRound(p) ==
    CASE p \in {"w1", "commit"} -> 1
      [] p \in {"w2"} \cup WatcherReporting -> 2
      [] p = "w3" -> 3
      [] OTHER -> 0

\* the number of barrier arrivals of task t since the start of its section:
\* three for every round it has finished, those of the round it is in, and
\* the arrival at the end of the sections once it has left its loop
Arrivals(t) ==
    IF pc[t] \in LeftLoop THEN 3 * iter[t] + 1
    ELSE IF pc[t] \in {"idle", "while"} THEN 0
    ELSE 3 * (iter[t] - 1) + ArrivalsInRound(pc[t])

\* the number of barriers task t has gone through
Passed(t) ==
    IF pc[t] \in {"w1", "w2", "w3", "wend"} /\ ~Released(t)
    THEN Arrivals(t) - 1 ELSE Arrivals(t)

(* C29  Lockstep rounds.  A task goes through its n-th barrier only when    *)
(* every task of the team has made its n-th arrival, and the n-th arrival   *)
(* of every task closes the same phase of the same round: no task is a      *)
(* barrier ahead of the others, or a round ahead.  Every step that changes  *)
(* the barrier is one arrival of one task: three in every round of a task,  *)
(* and one at the end of the sections.                                      *)
C29_LockstepRounds ==
    /\ [](\A a, b \in Tasks(variant) :
             /\ Passed(a) <= Arrivals(b)
             /\ Arrivals(a) <= Arrivals(b) + 1
             /\ iter[a] <= iter[b] + 1)
    /\ [][ (count' # count \/ gen' # gen) <=>
             \E t \in Tasks(variant) :
                 /\ Arrivals(t)' = Arrivals(t) + 1
                 /\ \A u \in Tasks(variant) \ {t} : Arrivals(u)' = Arrivals(u) ]_vars

\* in round 2 a worker waits at the barrier after the reports while the
\* Watcher, one arrival behind, has still to store the clock
C29_Witness ==
    \E w \in Workers(variant) :
        /\ pc[w] = "w3" /\ iter[w] = 2
        /\ pc["Watcher"] = "storeMonth"
        /\ Arrivals(w) = Arrivals("Watcher") + 1
-----------------------------------------------------------------------------
(* The end of the run                                                        *)

\* the month a record shows: NowMonth + 1
DisplayedMonth(rec) == rec.month + 1

(* C30  Final clock state.  When a run whose horizon is a year or more      *)
(* after the start has halted, the clock reads year = horizon and month 0,  *)
(* and the last record is labelled with the year horizon - 1 and shows      *)
(* month 12.                                                                *)
C30_FinalClockState ==
    (pcMain = "exit" /\ NumYears > StartYear(variant)) =>
        /\ NowYear = NumYears
        /\ NowMonth = 0
        /\ reports # << >>
        /\ reports[Len(reports)].year = NumYears - 1
        /\ DisplayedMonth(reports[Len(reports)]) = MonthsPerYear

\* the zombie program has halted after its year 2023
C30_Witness ==
    /\ pcMain = "exit"
    /\ variant = "SIInZD"
    /\ NumYears = START_YEAR + 1
    /\ NowYear = START_YEAR + 1
    /\ reports[Len(reports)].year = START_YEAR
-----------------------------------------------------------------------------
(* A horizon that is reached before the first round                          *)

\* the positions outside the loop body: not started, at the loop condition,
\* past the loop
OutsideLoop == {"idle", "while"} \cup LeftLoop

(* C31  Horizon reached at start.  When NowYear >= NumYears as the parallel  *)
(* region starts, every task leaves its loop at its first test: no task is   *)
(* ever inside the loop body or at one of its three barriers, no step of a   *)
(* task changes a compartment or the clock, and no record is added to the    *)
(* initial one of main.                                                      *)
C31_HorizonReachedAtStart ==
    /\ [](NumYears <= StartYear(variant)
            => /\ NowYear >= NumYears
               /\ \A t \in Tasks(variant) : pc[t] \in OutsideLoop /\ iter[t] = 0)
    /\ [][ (NumYears <= StartYear(variant) /\ pcMain = "parallel") =>
               /\ Current' = Current
               /\ NowYear' = NowYear
               /\ NowMonth' = NowMonth
               /\ reports' = reports ]_vars

\* with the horizon at the start year, one task has left its loop while
\* another has still to test its condition, and nothing has been reported
\* but the initial record
C31_Witness ==
    /\ NumYears = StartYear(variant)
    /\ pcMain = "parallel"
    /\ \E a, b \in Tasks(variant) : pc[a] = "wend" /\ pc[b] = "while"
    /\ pc["Watcher"] = "wend"
    /\ Len(reports) = 1
-----------------------------------------------------------------------------
(* The sink compartments                                                     *)

\* the compartment nobody leaves: Dead in the zombie program, Recovered in
\* SIR and SQEIR
Sink(v) == IF v = "SIInZD" THEN "Dead" ELSE "Recovered"

(* C32 as stated: the value committed to the sink compartment (Recovered in  *)
(* SIR and SQEIR, Dead in the zombie program) never decreases from one round *)
(* to the next, whatever the accepted populations and rates.                 *)
C32_SinkMonotone ==
    [][ Current'[Sink(variant)] >= Current[Sink(variant)] ]_vars
-----------------------------------------------------------------------------
(* The private value of Recovered()                                          *)

(* C33  Recovered accumulator agreement.  In SIR and SQEIR, whenever the     *)
(* Recovered worker is about to compute, its private nextRecovered equals    *)
(* the shared CurrentRecovered, and the value it then commits is the         *)
(* CurrentRecovered of the previous round plus round(CurrentInfected *       *)
(* RecoveryRate), as if the worker had re-read the shared value.             *)
C33_AccumulatorAgreement ==
    /\ []((variant \in {"SIR", "SQEIR"} /\ pc["Recovered"] = "compute")
            => next["Recovered"] = Current["Recovered"])
    /\ [][ (variant \in {"SIR", "SQEIR"}
              /\ pc["Recovered"] = "commit" /\ pc'["Recovered"] = "w2")
             => Current'["Recovered"] =
                    committed["Recovered"]
                        + Round(committed["Infected"], rates.RecoveryRate) ]_vars

\* a later round, in which Recovered is no longer at its initial value
C33_Witness ==
    /\ variant \in {"SIR", "SQEIR"}
    /\ pc["Recovered"] = "compute"
    /\ iter["Recovered"] >= 3
    /\ Current["Recovered"] > 0
    /\ next["Recovered"] = Current["Recovered"]
-----------------------------------------------------------------------------
(* The horizon given with -y                                                 *)

\* the text s is a number of years in 0 .. INT_MAX: it has digits, no minus
\* sign in front of a value other than 0, and its value needs no more than 31
\* bits
InIntRange(s) ==
    /\ strtol64(s).endptr # 0
    /\ ~strtol64(s).negative
    /\ strtol64(s).errno = "none"
    /\ ~AboveIntMax(strtol64(s).limbs)

(* C34  parseInt range.  The horizon is only ever assigned a value in        *)
(* 0 .. INT_MAX, and that value is the number the text denotes; a text whose *)
(* value is above INT_MAX or below 0 makes the process exit with failure and *)
(* leaves the horizon as it was: nothing is stored truncated or wrapped.     *)
C34_ParseIntRange ==
    /\ [](0 <= NumYears /\ NumYears <= INT_MAX)
    /\ [][ (pcMain = "parse" /\ argi + 1 <= Len(argv) /\ argv[argi] = << "-", "y" >>) =>
             IF InIntRange(argv[argi + 1])
             THEN /\ pcMain' = "parse"
                  /\ LET l == strtol64(argv[argi + 1]).limbs
                     IN  NumYears' = l[2] * Limb + l[1]
             ELSE /\ pcMain' = "failed"
                  /\ NumYears' = NumYears ]_vars

\* -y 4294967297, whose low 32 bits are 1, has been refused
C34_Witness ==
    /\ pcMain = "failed"
    /\ argv[2] = << "4", "2", "9", "4", "9", "6", "7", "2", "9", "7" >>
    /\ errors = << Message("too large", << "-", "y" >>) >>
    /\ NumYears = NUM_YEARS
====
